---- MODULE Spec2Model ----
(***************************************************************************)
(* A model of cron_parser_py.py: the field parser (parse_range,            *)
(* parse_part, parse_field), the symbolic name resolver, the time-of-day   *)
(* and date advancers, and the schedule iterator.                          *)
(*                                                                         *)
(* Text is a sequence of one-character strings, so that splitting,         *)
(* matching and integer conversion are computed the way the code computes  *)
(* them.  A datetime is a record [year, month, day, hour, minute]; a start *)
(* timestamp also carries its seconds, which the constructor truncates.    *)
(***************************************************************************)
EXTENDS Integers, Sequences, FiniteSets, TLC

VARIABLES expr, start_date, fields_parsed, iter, twin, call

vars == <<expr, start_date, fields_parsed, iter, twin, call>>

(***************************************************************************)
(* Bounds of the model.                                                    *)
(***************************************************************************)
\* longest generated field text (SpecParse)
MaxLen == 3
\* number of next() calls made on one iterator
MaxCalls == 4
\* the turns of shift_date's loop are followed through this year (and
\* through the last year of datetime's range)
MaxYear == 2024

\* the widest value domain [min, max] of a direct call of to_next_value
MaxWidth == 5

(***************************************************************************)
(* Text helpers: str, int(), str.split, re.fullmatch(r'\d+'), str.isdigit  *)
(***************************************************************************)
Digits == {"0", "1", "2", "3", "4", "5", "6", "7", "8", "9"}

DigitValue(c) ==
    CASE c = "0" -> 0 [] c = "1" -> 1 [] c = "2" -> 2 [] c = "3" -> 3
      [] c = "4" -> 4 [] c = "5" -> 5 [] c = "6" -> 6 [] c = "7" -> 7
      [] c = "8" -> 8 [] c = "9" -> 9

DigitChar(n) ==
    CASE n = 0 -> "0" [] n = 1 -> "1" [] n = 2 -> "2" [] n = 3 -> "3"
      [] n = 4 -> "4" [] n = 5 -> "5" [] n = 6 -> "6" [] n = 7 -> "7"
      [] n = 8 -> "8" [] n = 9 -> "9"

Range(s) == {s[i] : i \in 1..Len(s)}

\* re.fullmatch(r'\d+', s) and s.isdigit(), on ASCII text
IsDigits(s) == Len(s) > 0 /\ \A i \in 1..Len(s) : s[i] \in Digits

\* int(s) for a string of digits
RECURSIVE StrToInt(_)
StrToInt(s) ==
    IF s = <<>> THEN 0
    ELSE 10 * StrToInt(SubSeq(s, 1, Len(s) - 1)) + DigitValue(s[Len(s)])

\* str(n) for n >= 0
RECURSIVE IntToStr(_)
IntToStr(n) ==
    IF n < 10 THEN <<DigitChar(n)>>
    ELSE IntToStr(n \div 10) \o <<DigitChar(n % 10)>>

\* s.split(c): the parts between the occurrences of c, empty parts kept
RECURSIVE Split(_, _)
Split(s, c) ==
    IF c \notin Range(s) THEN <<s>>
    ELSE LET i == CHOOSE j \in 1..Len(s) :
                     s[j] = c /\ \A k \in 1..(j - 1) : s[k] # c
         IN  <<SubSeq(s, 1, i - 1)>> \o Split(SubSeq(s, i + 1, Len(s)), c)

\* s.strip().split(): the maximal runs of non-blank characters
RECURSIVE SplitWhitespace(_)
SplitWhitespace(s) ==
    IF s = <<>> THEN <<>>
    ELSE IF s[1] = " " THEN SplitWhitespace(Tail(s))
    ELSE LET n == IF " " \in Range(s)
                  THEN (CHOOSE j \in 1..Len(s) :
                            s[j] = " " /\ \A k \in 1..(j - 1) : s[k] # " ") - 1
                  ELSE Len(s)
         IN  <<SubSeq(s, 1, n)>> \o SplitWhitespace(SubSeq(s, n + 1, Len(s)))

\* list(range(a, b + 1))
RangeList(a, b) == [i \in 1..(b - a + 1) |-> a + i - 1]

\* sorted(set(xs)) given the set: its members in ascending order
SortedList(S) ==
    IF S = {} THEN <<>>
    ELSE LET lo == CHOOSE x \in S : \A y \in S : x <= y
             hi == CHOOSE x \in S : \A y \in S : x >= y
             Member(v) == v \in S
         IN  SelectSeq(RangeList(lo, hi), Member)

(***************************************************************************)
(* Symbolic name resolver                                                  *)
(***************************************************************************)
MONTH_MAP ==
    (<<"J","A","N">> :> 1) @@ (<<"F","E","B">> :> 2) @@ (<<"M","A","R">> :> 3) @@
    (<<"A","P","R">> :> 4) @@ (<<"M","A","Y">> :> 5) @@ (<<"J","U","N">> :> 6) @@
    (<<"J","U","L">> :> 7) @@ (<<"A","U","G">> :> 8) @@ (<<"S","E","P">> :> 9) @@
    (<<"O","C","T">> :> 10) @@ (<<"N","O","V">> :> 11) @@ (<<"D","E","C">> :> 12)

DOW_MAP ==
    (<<"S","U","N">> :> 0) @@ (<<"M","O","N">> :> 1) @@ (<<"T","U","E">> :> 2) @@
    (<<"W","E","D">> :> 3) @@ (<<"T","H","U">> :> 4) @@ (<<"F","R","I">> :> 5) @@
    (<<"S","A","T">> :> 6)

\* re.sub('KEY1|KEY2|...', repl, field): leftmost, non-overlapping matches of
\* the three-letter keys, each replaced by str(map[key])
RECURSIVE ReplaceNames(_, _)
ReplaceNames(field, map) ==
    IF field = <<>> THEN <<>>
    ELSE IF Len(field) >= 3 /\ SubSeq(field, 1, 3) \in DOMAIN map
    THEN IntToStr(map[SubSeq(field, 1, 3)])
             \o ReplaceNames(SubSeq(field, 4, Len(field)), map)
    ELSE <<field[1]>> \o ReplaceNames(Tail(field), map)

\* the month field resolved with the weekday table
replace_month_string_WeekdayTable(field) == ReplaceNames(field, DOW_MAP)

replace_month_string(field) == ReplaceNames(field, MONTH_MAP)

replace_dow_string(field) == ReplaceNames(field, DOW_MAP)

(***************************************************************************)
(* Field parser.  A result is [err, vals]: err is "ok" or the exception.   *)
(***************************************************************************)
Ok(vals) == [err |-> "ok", vals |-> vals]

Raise(e) == [err |-> e, vals |-> <<>>]

\* re.fullmatch(r'\d+-\d+', s)
IsRangeShape(s) ==
    \E i \in 1..Len(s) :
        /\ s[i] = "-"
        /\ IsDigits(SubSeq(s, 1, i - 1))
        /\ IsDigits(SubSeq(s, i + 1, Len(s)))

\* parse_range without the test start > end
parse_range_NoOrderCheck(range_str, min_, max_) ==
    IF range_str = <<"*">> THEN Ok(RangeList(min_, max_))
    ELSE IF IsDigits(range_str)
    THEN LET value == StrToInt(range_str)
         IN  IF value < min_ \/ value > max_ THEN Raise("ValueError")
             ELSE Ok(<<value>>)
    ELSE IF IsRangeShape(range_str)
    THEN LET ends  == Split(range_str, "-")
             start == StrToInt(ends[1])
             end   == StrToInt(ends[2])
         IN  IF start < min_ \/ end > max_
             THEN Raise("ValueError")
             ELSE Ok(RangeList(start, end))
    ELSE Raise("ValueError")

parse_range(range_str, min_, max_) ==
    IF range_str = <<"*">> THEN Ok(RangeList(min_, max_))
    ELSE IF IsDigits(range_str)
    THEN LET value == StrToInt(range_str)
         IN  IF value < min_ \/ value > max_ THEN Raise("ValueError")
             ELSE Ok(<<value>>)
    ELSE IF IsRangeShape(range_str)
    THEN LET ends  == Split(range_str, "-")
             start == StrToInt(ends[1])
             end   == StrToInt(ends[2])
         IN  IF start > end \/ start < min_ \/ end > max_
             THEN Raise("ValueError")
             ELSE Ok(RangeList(start, end))
    ELSE Raise("ValueError")

\* the step counted from the first value of the range
parse_part_StepFromRangeStart(part, min_, max_) ==
    IF "/" \in Range(part)
    THEN LET pieces == Split(part, "/")
         IN  IF Len(pieces) # 2 THEN Raise("ValueError")
             ELSE LET range_vals == parse_range(pieces[1], min_, max_)
                      step_str   == pieces[2]
                  IN  IF range_vals.err # "ok" THEN range_vals
                      ELSE IF ~IsDigits(step_str) \/ StrToInt(step_str) <= 0
                      THEN Raise("ValueError")
                      ELSE LET step == StrToInt(step_str)
                               Keep(v) == (v - range_vals.vals[1]) % step = 0
                           IN  Ok(SelectSeq(range_vals.vals, Keep))
    ELSE parse_range(part, min_, max_)

parse_part(part, min_, max_) ==
    IF "/" \in Range(part)
    THEN LET pieces == Split(part, "/")
         IN  IF Len(pieces) # 2 THEN Raise("ValueError")
             ELSE LET range_vals == parse_range(pieces[1], min_, max_)
                      step_str   == pieces[2]
                  IN  IF range_vals.err # "ok" THEN range_vals
                      ELSE IF ~IsDigits(step_str) \/ StrToInt(step_str) <= 0
                      THEN Raise("ValueError")
                      ELSE LET step == StrToInt(step_str)
                               Keep(v) == (v - min_) % step = 0
                           IN  Ok(SelectSeq(range_vals.vals, Keep))
    ELSE parse_range(part, min_, max_)

parse_field(field, min_, max_) ==
    LET parts  == Split(field, ",")
        parsed == [i \in 1..Len(parts) |-> parse_part(parts[i], min_, max_)]
    IN  IF \E i \in 1..Len(parts) : parsed[i].err # "ok"
        THEN Raise("ValueError")
        ELSE Ok(SortedList(UNION {Range(parsed[i].vals) : i \in 1..Len(parts)}))

(***************************************************************************)
(* datetime: calendar arithmetic, comparison, weekday()                    *)
(***************************************************************************)
IsLeap(y) == y % 4 = 0 /\ (y % 100 # 0 \/ y % 400 = 0)

DaysInMonth(y, m) ==
    IF m = 2 THEN (IF IsLeap(y) THEN 29 ELSE 28)
    ELSE IF m \in {4, 6, 9, 11} THEN 30 ELSE 31

RECURSIVE DaysBeforeMonth(_, _)
DaysBeforeMonth(y, m) ==
    IF m = 1 THEN 0 ELSE DaysBeforeMonth(y, m - 1) + DaysInMonth(y, m - 1)

\* date.toordinal(): 0001-01-01 is day 1
ToOrdinal(dt) ==
    LET y == dt.year - 1
    IN  y * 365 + (y \div 4) - (y \div 100) + (y \div 400)
            + DaysBeforeMonth(dt.year, dt.month) + dt.day

\* datetime.weekday(): Monday is 0 and Sunday is 6
Weekday(dt) == (ToOrdinal(dt) + 6) % 7

\* datetime.MAXYEAR: datetime + timedelta raises OverflowError ("date value
\* out of range") when the sum lies after the last day of this year
MAXYEAR == 9999

\* the sum of a datetime and a timedelta lies outside datetime's range
OutOfRange(dt) == dt.year > MAXYEAR

\* dt + timedelta(days=1), the check of the range left to the caller
AddDay(dt) ==
    IF dt.day < DaysInMonth(dt.year, dt.month)
    THEN [dt EXCEPT !.day = dt.day + 1]
    ELSE IF dt.month < 12
    THEN [dt EXCEPT !.month = dt.month + 1, !.day = 1]
    ELSE [dt EXCEPT !.year = dt.year + 1, !.month = 1, !.day = 1]

RECURSIVE AddDays(_, _)
AddDays(dt, n) == IF n = 0 THEN dt ELSE AddDays(AddDay(dt), n - 1)

\* dt + timedelta(minutes=n), n >= 0
AddMinutes(dt, n) ==
    LET total == dt.hour * 60 + dt.minute + n
        day   == AddDays(dt, total \div 1440)
    IN  [day EXCEPT !.hour = (total % 1440) \div 60, !.minute = total % 60]

\* dt + timedelta(hours=n), n >= 0
AddHours(dt, n) == AddMinutes(dt, 60 * n)

\* a < b on datetimes
Before(a, b) ==
    LET ka == <<a.year, a.month, a.day, a.hour, a.minute>>
        kb == <<b.year, b.month, b.day, b.hour, b.minute>>
    IN  \E i \in 1..5 : ka[i] < kb[i] /\ \A j \in 1..(i - 1) : ka[j] = kb[j]

(***************************************************************************)
(* Time-of-day advancer and date advancer                                  *)
(***************************************************************************)
\* to_next_value whose wrap is one short of a full cycle
to_next_value_ShortWrap(current, candidates, min_, max_) ==
    LET later == {c \in Range(candidates) : c >= current}
    IN  IF later # {}
        THEN [err |-> "ok", val |-> (CHOOSE c \in later : \A d \in later : c <= d) - current]
        ELSE IF candidates = <<>>
        THEN [err |-> "IndexError", val |-> 0]
        ELSE [err |-> "ok", val |-> candidates[1] + max_ + min_ - current]

\* [err, val]: the delta, or IndexError from candidates[0] on an empty list
\* the wrap to the first candidate without the width of the domain
to_next_value_NoWrapWidth(current, candidates, min_, max_) ==
    LET later == {c \in Range(candidates) : c >= current}
    IN  IF later # {}
        THEN [err |-> "ok", val |-> (CHOOSE c \in later : \A d \in later : c <= d) - current]
        ELSE IF candidates = <<>>
        THEN [err |-> "IndexError", val |-> 0]
        ELSE [err |-> "ok", val |-> candidates[1] - current]

to_next_value(current, candidates, min_, max_) ==
    LET later == {c \in Range(candidates) : c >= current}
    IN  IF later # {}
        THEN [err |-> "ok", val |-> (CHOOSE c \in later : \A d \in later : c <= d) - current]
        ELSE IF candidates = <<>>
        THEN [err |-> "IndexError", val |-> 0]
        ELSE [err |-> "ok", val |-> candidates[1] + max_ + min_ + 1 - current]

\* shift_time without the reset of the minute after the hour is advanced
shift_time_MinuteKept(dt, minutes, hours) ==
    LET add_minute == to_next_value(dt.minute, minutes, 0, 59)
    IN  IF add_minute.err # "ok" THEN [err |-> add_minute.err, dt |-> dt]
        ELSE
        LET dt1 == AddMinutes(dt, add_minute.val)
            dt2 == IF dt1.minute \notin Range(minutes)
                   THEN [dt1 EXCEPT !.minute = minutes[1]]
                   ELSE dt1
            add_hour == to_next_value(dt2.hour, hours, 0, 23)
        IN  IF OutOfRange(dt1) THEN [err |-> "OverflowError", dt |-> dt]
            ELSE IF add_hour.err # "ok" THEN [err |-> add_hour.err, dt |-> dt]
            ELSE IF add_hour.val > 0
            THEN IF OutOfRange(AddHours(dt2, add_hour.val))
                 THEN [err |-> "OverflowError", dt |-> dt]
                 ELSE [err |-> "ok", dt |-> AddHours(dt2, add_hour.val)]
            ELSE [err |-> "ok", dt |-> dt2]

\* [err, dt]
shift_time(dt, minutes, hours) ==
    LET add_minute == to_next_value(dt.minute, minutes, 0, 59)
    IN  IF add_minute.err # "ok" THEN [err |-> add_minute.err, dt |-> dt]
        ELSE
        LET dt1 == AddMinutes(dt, add_minute.val)
            dt2 == IF dt1.minute \notin Range(minutes)
                   THEN [dt1 EXCEPT !.minute = minutes[1]]
                   ELSE dt1
            add_hour == to_next_value(dt2.hour, hours, 0, 23)
        IN  IF OutOfRange(dt1) THEN [err |-> "OverflowError", dt |-> dt]
            ELSE IF add_hour.err # "ok" THEN [err |-> add_hour.err, dt |-> dt]
            ELSE IF add_hour.val > 0
            THEN IF OutOfRange(AddHours(dt2, add_hour.val))
                 THEN [err |-> "OverflowError", dt |-> dt]
                 ELSE [err |-> "ok",
                       dt  |-> [AddHours(dt2, add_hour.val) EXCEPT !.minute = minutes[1]]]
            ELSE [err |-> "ok", dt |-> dt2]

\* the loop test without the month
DateMatches_MonthIgnored(dt, dom, month, dow) ==
    /\ dt.day \in Range(dom)
    /\ Weekday(dt) \in Range(dow)

\* the loop test with day of month or month in place of day of month and month
DateMatches_DayOrMonth(dt, dom, month, dow) ==
    /\ (dt.day \in Range(dom) \/ dt.month \in Range(month))
    /\ Weekday(dt) \in Range(dow)

\* the loop test of shift_date
DateMatches(dt, dom, month, dow) ==
    /\ dt.day \in Range(dom)
    /\ dt.month \in Range(month)
    /\ Weekday(dt) \in Range(dow)

\* the loop body stepping two days
ShiftDateBody_TwoDays(dt) == [AddDay(AddDay(dt)) EXCEPT !.hour = 0, !.minute = 0]

\* the loop body without the reset of the time of day
ShiftDateBody_TimeKept(dt) == AddDay(dt)

\* one turn of the loop body of shift_date
ShiftDateBody(dt) == [AddDay(dt) EXCEPT !.hour = 0, !.minute = 0]

(***************************************************************************)
(* Schedule iterator.  An iterator is the record of its fields with the    *)
(* position of its __next__ call:                                          *)
(*   pc      "start" (not constructed), "none" (parse_cron_expression      *)
(*           raised), "idle" (between calls), "shift_date" (in the loop)   *)
(*   dt      the local dt of __next__                                      *)
(*   results the timestamps returned so far, in order                      *)
(*   calls   the number of calls begun                                     *)
(*   last    how the last call (or the parse) ended                        *)
(* The variable iter is the iterator parse_cron_expression returns for     *)
(* expr; twin is the one it returns for expr written with 0 for every 7 of *)
(* its day-of-week field, and takes a step whenever iter does.             *)
(* fields_parsed holds the five parse_field results of the parse.          *)
(***************************************************************************)
NullDt == [year |-> 1, month |-> 1, day |-> 1, hour |-> 0, minute |-> 0]

NoIterator(pc, last) ==
    [pc |-> pc, minute |-> <<>>, hour |-> <<>>, dom |-> <<>>, month |-> <<>>,
     dow |-> <<>>, current |-> NullDt, dt |-> NullDt, results |-> <<>>,
     calls |-> 0, last |-> last]

\* start.replace(second=0, microsecond=0)
TruncateToMinute(start) ==
    [year |-> start.year, month |-> start.month, day |-> start.day,
     hour |-> start.hour, minute |-> start.minute]

\* the day-of-week list left as parsed
UnifyDow_Keep7(dow) == dow

\* [0 if d == 7 else d for d in dow]; parse_cron_expression applies the same
\* comprehension before it calls the constructor
UnifyDow(dow) == [i \in 1..Len(dow) |-> IF dow[i] = 7 THEN 0 ELSE dow[i]]

\* the constructor with the cursor at the truncated start itself
CronScheduleIterator_NoFirstStep(minute, hour, dom, month, dow, start) ==
    [pc |-> "idle", minute |-> minute, hour |-> hour, dom |-> dom,
     month |-> month, dow |-> UnifyDow(dow),
     current |-> TruncateToMinute(start),
     dt |-> NullDt, results |-> <<>>, calls |-> 0, last |-> "none"]

\* CronScheduleIterator.__init__
CronScheduleIterator(minute, hour, dom, month, dow, start) ==
    IF OutOfRange(AddMinutes(TruncateToMinute(start), 1))
    THEN NoIterator("none", "OverflowError")
    ELSE [pc |-> "idle", minute |-> minute, hour |-> hour, dom |-> dom,
          month |-> month, dow |-> UnifyDow(dow),
          current |-> AddMinutes(TruncateToMinute(start), 1),
          dt |-> NullDt, results |-> <<>>, calls |-> 0, last |-> "none"]

\* the domains of the five fields, in the order of the expression
Domains ==
    <<[min_ |-> 0, max_ |-> 59], [min_ |-> 0, max_ |-> 23], [min_ |-> 1, max_ |-> 31],
      [min_ |-> 1, max_ |-> 12], [min_ |-> 0, max_ |-> 7]>>

\* the text handed to parse_field for field k: names resolved in month and
\* day of week
FieldText(fields, k) ==
    IF k = 4 THEN replace_month_string(fields[4])
    ELSE IF k = 5 THEN replace_dow_string(fields[5])
    ELSE fields[k]

Unset == [err |-> "unset", vals |-> <<>>]

\* the locals minute, hour, dom, month, dow of parse_cron_expression: the
\* fields are parsed in order and the first exception ends the parse
ParseFields(e) ==
    LET fields == SplitWhitespace(e)
    IN  IF Len(fields) # 5 THEN [k \in 1..5 |-> Unset]
        ELSE LET all == [k \in 1..5 |->
                            parse_field(FieldText(fields, k),
                                        Domains[k].min_, Domains[k].max_)]
             IN  [k \in 1..5 |->
                     IF \A j \in 1..(k - 1) : all[j].err = "ok" THEN all[k] ELSE Unset]

\* the end of parse_cron_expression, given its locals p: the exception of
\* the first field that failed, or the iterator
Construct(p, start) ==
    IF \E k \in 1..5 : p[k].err # "ok"
    THEN NoIterator("none", "ValueError")
    ELSE CronScheduleIterator(p[1].vals, p[2].vals, p[3].vals, p[4].vals,
                              UnifyDow(p[5].vals), start)

parse_cron_expression(e, start) == Construct(ParseFields(e), start)

\* __next__ up to the loop of shift_date
EnterNext(p) ==
    LET t == shift_time(p.current, p.minute, p.hour)
    IN  IF t.err # "ok"
        THEN [p EXCEPT !.calls = p.calls + 1, !.last = t.err]
        ELSE [p EXCEPT !.calls = p.calls + 1, !.pc = "shift_date", !.dt = t.dt]

\* the return of __next__ with the cursor left on the returned timestamp
LeaveNext_CursorNotAdvanced(p) ==
    IF Before(p.dt, p.current)
    THEN [p EXCEPT !.pc = "idle", !.last = "StopIteration"]
    ELSE [p EXCEPT !.pc = "idle", !.last = "returned",
                   !.current = p.dt,
                   !.results = Append(p.results, p.dt)]

\* the return of __next__ with the cursor two minutes after the returned
\* timestamp
LeaveNext_TwoMinutes(p) ==
    IF Before(p.dt, p.current)
    THEN [p EXCEPT !.pc = "idle", !.last = "StopIteration"]
    ELSE IF OutOfRange(AddMinutes(p.dt, 2))
    THEN [p EXCEPT !.pc = "idle", !.last = "OverflowError"]
    ELSE [p EXCEPT !.pc = "idle", !.last = "returned",
                   !.current = AddMinutes(p.dt, 2),
                   !.results = Append(p.results, p.dt)]

\* __next__ from the break of shift_date's loop to its return or raise
LeaveNext(p) ==
    IF Before(p.dt, p.current)
    THEN [p EXCEPT !.pc = "idle", !.last = "StopIteration"]
    ELSE IF OutOfRange(AddMinutes(p.dt, 1))
    THEN [p EXCEPT !.pc = "idle", !.last = "OverflowError"]
    ELSE [p EXCEPT !.pc = "idle", !.last = "returned",
                   !.current = AddMinutes(p.dt, 1),
                   !.results = Append(p.results, p.dt)]

\* one turn of shift_date's loop that does not break: the next day, or the
\* OverflowError of the addition, which ends the call of __next__
TurnLoop(p) ==
    IF OutOfRange(ShiftDateBody(p.dt))
    THEN [p EXCEPT !.pc = "idle", !.last = "OverflowError"]
    ELSE [p EXCEPT !.dt = ShiftDateBody(p.dt)]

\* the years in which the turns of the loop are followed: those up to
\* MaxYear, and the last year of datetime's range
Followed(dt) == dt.year <= MaxYear \/ dt.year = MAXYEAR

InLoop(p) == p.pc = "shift_date"

Matches(p) == DateMatches(p.dt, p.dom, p.month, p.dow)

\* a second iterator, stepped whenever the first one is
Advance(p) ==
    IF p.pc = "idle" /\ p.calls < MaxCalls THEN EnterNext(p)
    ELSE IF InLoop(p) /\ Matches(p) THEN LeaveNext(p)
    ELSE IF InLoop(p) /\ Followed(p.dt) THEN TurnLoop(p)
    ELSE p

(***************************************************************************)
(* Inputs                                                                  *)
(***************************************************************************)
\* "*/15 * * * *"
E_Quarter == <<"*", "/", "1", "5", " ", "*", " ", "*", " ", "*", " ", "*">>

\* "0 0 1 1 *"
E_NewYear == <<"0", " ", "0", " ", "1", " ", "1", " ", "*">>

\* "0 9 * * MON-FRI"
E_Weekdays == <<"0", " ", "9", " ", "*", " ", "*", " ", "M", "O", "N", "-", "F", "R", "I">>

\* "0 0 * * 7"
E_Sunday7 == <<"0", " ", "0", " ", "*", " ", "*", " ", "7">>

\* "0 0 * * 0"
E_Sunday0 == <<"0", " ", "0", " ", "*", " ", "*", " ", "0">>

\* "0 0 * * 0-7"
E_AllWeek == <<"0", " ", "0", " ", "*", " ", "*", " ", "0", "-", "7">>

\* "0 0 * * 7/2"
E_Step7 == <<"0", " ", "0", " ", "*", " ", "*", " ", "7", "/", "2">>

\* "1/3 * * * *"
E_EmptyMinute == <<"1", "/", "3", " ", "*", " ", "*", " ", "*", " ", "*">>

\* "30 9 15 * *"
E_MidMonth == <<"3", "0", " ", "9", " ", "1", "5", " ", "*", " ", "*">>

\* "* * * * *"
E_EveryMinute == <<"*", " ", "*", " ", "*", " ", "*", " ", "*">>

\* "0 0 31 2 *"
E_Feb31 == <<"0", " ", "0", " ", "3", "1", " ", "2", " ", "*">>

\* "60 * * * *"
E_BadMinute == <<"6", "0", " ", "*", " ", "*", " ", "*", " ", "*">>

\* "* * * *"
E_FourFields == <<"*", " ", "*", " ", "*", " ", "*">>

\* " 0 0 1 1  8 "
E_BadDow == <<" ", "0", " ", "0", " ", "1", " ", "1", " ", " ", "8", " ">>

\* "0 9 * * 1,7"
E_MonSun == <<"0", " ", "9", " ", "*", " ", "*", " ", "1", ",", "7">>

Expressions ==
    {E_MonSun, E_Quarter, E_NewYear, E_Weekdays, E_Sunday7,
     E_Sunday0, E_AllWeek, E_Step7, E_EmptyMinute,
     E_MidMonth, E_EveryMinute, E_Feb31, E_BadMinute,
     E_FourFields, E_BadDow}

\* 2023-01-01 00:05:00, a Sunday
S_NewYearsDay == [year |-> 2023, month |-> 1, day |-> 1, hour |-> 0, minute |-> 5, second |-> 0]

\* 2023-06-15 10:00:00, a Thursday
S_June == [year |-> 2023, month |-> 6, day |-> 15, hour |-> 10, minute |-> 0, second |-> 0]

\* 2023-12-31 23:59:30, a Sunday
S_YearEnd == [year |-> 2023, month |-> 12, day |-> 31, hour |-> 23, minute |-> 59, second |-> 30]

\* 2024-02-28 09:00:00, a Wednesday of a leap year
S_LeapFeb == [year |-> 2024, month |-> 2, day |-> 28, hour |-> 9, minute |-> 0, second |-> 0]

Starts == {S_NewYearsDay, S_June, S_YearEnd, S_LeapFeb}

\* 9999-12-30 12:00:00, the day before the last day of datetime's range
S_LastDays == [year |-> 9999, month |-> 12, day |-> 30, hour |-> 12, minute |-> 0, second |-> 0]

\* 9999-12-31 23:57:00, three minutes before the end of datetime's range
S_LastMinutes == [year |-> 9999, month |-> 12, day |-> 31, hour |-> 23, minute |-> 57, second |-> 0]

\* the expression written with 0 for every 7 of its day-of-week field
SevenAsZero(e) ==
    LET fields == SplitWhitespace(e)
    IN  IF Len(fields) # 5 THEN e
        ELSE LET f == fields[5]
                 g == [i \in 1..Len(f) |-> IF f[i] = "7" THEN "0" ELSE f[i]]
             IN  fields[1] \o <<" ">> \o fields[2] \o <<" ">> \o fields[3]
                     \o <<" ">> \o fields[4] \o <<" ">> \o g

\* field texts of SpecParse: every text up to MaxLen characters, and longer ones
Alphabet == {"*", "0", "1", "7", "-", "/", ",", " "}

Texts == UNION {[1..n -> Alphabet] : n \in 0..MaxLen}

\* "0-70", "1-7/3", "0-7/2", "1/2/3", "1-3-7", "*/15", "0-3/0", "1JAN", "MON-FRI"
LongTexts ==
    {<<"0", "-", "7", "0">>,
     <<"1", "-", "7", "/", "3">>,
     <<"0", "-", "7", "/", "2">>,
     <<"1", "/", "2", "/", "3">>,
     <<"1", "-", "3", "-", "7">>,
     <<"*", "/", "1", "5">>,
     <<"0", "-", "3", "/", "0">>,
     <<"1", "J", "A", "N">>,
     <<"M", "O", "N", "-", "F", "R", "I">>,
     <<"1", "0", "-", "1", "2", ",", "5">>}

\* the three-letter names in the order of their numbers: months from 1,
\* weekdays from 0
MonthNames ==
    <<<<"J", "A", "N">>, <<"F", "E", "B">>, <<"M", "A", "R">>, <<"A", "P", "R">>,
      <<"M", "A", "Y">>, <<"J", "U", "N">>, <<"J", "U", "L">>, <<"A", "U", "G">>,
      <<"S", "E", "P">>, <<"O", "C", "T">>, <<"N", "O", "V">>, <<"D", "E", "C">>>>

DayNames ==
    <<<<"S", "U", "N">>, <<"M", "O", "N">>, <<"T", "U", "E">>, <<"W", "E", "D">>,
      <<"T", "H", "U">>, <<"F", "R", "I">>, <<"S", "A", "T">>>>

\* the decimal numerals of 0..12
Numerals ==
    <<<<"0">>, <<"1">>, <<"2">>, <<"3">>, <<"4">>, <<"5">>, <<"6">>, <<"7">>,
      <<"8">>, <<"9">>, <<"1", "0">>, <<"1", "1">>, <<"1", "2">>>>

\* fields written with names, as sequences of tokens: a name, two names
\* joined by "," or "-", a name with a step, a digit next to a name
NameFields(names) ==
    LET N == Range(names)
    IN  {<<a>> : a \in N}
            \cup {<<a, <<c>>, b>> : a \in N, b \in N, c \in {",", "-"}}
            \cup {<<a, <<"/">>, <<"2">>>> : a \in N}
            \cup {<<<<"1">>, a>> : a \in N}

RECURSIVE Concat(_)
Concat(tokens) ==
    IF tokens = <<>> THEN <<>> ELSE Head(tokens) \o Concat(Tail(tokens))

\* the tokens with the number first + i - 1 written for the i-th name
WithNumbers(tokens, names, first) ==
    Concat([j \in 1..Len(tokens) |->
               IF tokens[j] \in Range(names)
               THEN Numerals[(CHOOSE i \in 1..Len(names) : names[i] = tokens[j]) + first]
               ELSE tokens[j]])

NameTexts ==
    {Concat(f) : f \in NameFields(MonthNames) \cup NameFields(DayNames)}

InField(k, t) ==
    LET f == [i \in 1..5 |-> IF i = k THEN t ELSE <<"*">>]
    IN  f[1] \o <<" ">> \o f[2] \o <<" ">> \o f[3] \o <<" ">> \o f[4] \o <<" ">> \o f[5]

(***************************************************************************)
(* Specifications                                                          *)
(***************************************************************************)
\* no function of the module is being called directly
NoCall ==
    [pc |-> "none", current |-> 0, candidates |-> <<>>, min_ |-> 0, max_ |-> 0,
     ret |-> [err |-> "none", val |-> 0]]

Init ==
    /\ expr \in Expressions
    /\ start_date \in Starts
    /\ fields_parsed = [k \in 1..5 |-> Unset]
    /\ iter = NoIterator("start", "none")
    /\ twin = NoIterator("start", "none")
    /\ call = NoCall

\* it = parse_cron_expression(expr, start_date)
ParseCronExpression ==
    /\ iter.pc = "start"
    /\ fields_parsed' = ParseFields(expr)
    /\ iter' = Construct(fields_parsed', start_date)
    /\ twin' = IF SevenAsZero(expr) = expr THEN iter'
               ELSE parse_cron_expression(SevenAsZero(expr), start_date)
    /\ UNCHANGED <<expr, start_date, call>>

\* next(it) is called: shift_time, then into shift_date
NextCall ==
    /\ iter.pc = "idle"
    /\ iter.calls < MaxCalls
    /\ iter' = EnterNext(iter)
    /\ twin' = Advance(twin)
    /\ UNCHANGED <<expr, start_date, fields_parsed, call>>

\* shift_date: the date does not qualify, step one day
ShiftDateTurn ==
    /\ InLoop(iter)
    /\ ~Matches(iter)
    /\ Followed(iter.dt)
    /\ iter' = TurnLoop(iter)
    /\ twin' = Advance(twin)
    /\ UNCHANGED <<expr, start_date, fields_parsed, call>>

\* shift_date breaks; __next__ compares, moves the cursor and returns
NextReturn ==
    /\ InLoop(iter)
    /\ Matches(iter)
    /\ iter' = LeaveNext(iter)
    /\ twin' = Advance(twin)
    /\ UNCHANGED <<expr, start_date, fields_parsed, call>>

Next == ParseCronExpression \/ NextCall \/ ShiftDateTurn \/ NextReturn

Spec == Init /\ [][Next]_vars

InitParse ==
    /\ \/ \E k \in 1..5 : \E t \in Texts \cup LongTexts : expr = InField(k, t)
       \/ \E k \in {4, 5} : \E t \in NameTexts : expr = InField(k, t)
    /\ start_date = S_June
    /\ fields_parsed = [k \in 1..5 |-> Unset]
    /\ iter = NoIterator("start", "none")
    /\ twin = NoIterator("start", "none")
    /\ call = NoCall

NextParse == ParseCronExpression

SpecParse == InitParse /\ [][NextParse]_vars

\* schedules that match no date, one date a year, or every minute, from the
\* middle of 2023 and from the last days of datetime's range
InitRange ==
    /\ expr \in {E_Feb31, E_NewYear, E_EveryMinute}
    /\ start_date \in {S_June, S_LastDays, S_LastMinutes}
    /\ fields_parsed = [k \in 1..5 |-> Unset]
    /\ iter = NoIterator("start", "none")
    /\ twin = NoIterator("start", "none")
    /\ call = NoCall

SpecRange == InitRange /\ [][Next]_vars

\* a call of next() that has begun runs on: the loop of shift_date takes its
\* next turn and __next__ reaches its return or raise.  Whether next() is
\* called again is up to the caller.
InitLive == Init \/ InitRange

SpecLive ==
    InitLive /\ [][Next]_vars /\ WF_vars(ShiftDateTurn) /\ WF_vars(NextReturn)

(***************************************************************************)
(* Iterators constructed directly from field lists, as                     *)
(* CronScheduleIterator(minute, hour, dom, month, dow, start)              *)
(***************************************************************************)
\* the non-empty ascending lists over the values S
ListsOver(S) == {SortedList(T) : T \in (SUBSET S) \ {{}}}

DirectMinutes == ListsOver({0, 30, 59})

DirectHours == ListsOver({0, 9, 23})

\* [dom, month, dow]: every day; two weekdays; two days of the month
DirectDates ==
    {[dom |-> RangeList(1, 31), month |-> RangeList(1, 12), dow |-> RangeList(0, 6)],
     [dom |-> RangeList(1, 31), month |-> RangeList(1, 12), dow |-> <<0, 3>>],
     [dom |-> <<1, 15>>, month |-> RangeList(1, 12), dow |-> RangeList(0, 6)]}

\* the last day of 2023 and the last days of February 2024
DirectStarts ==
    {[year |-> 2023, month |-> 12, day |-> 31, hour |-> h, minute |-> m, second |-> 0]
        : h \in {0, 9, 23}, m \in {0, 30, 31, 59}}
    \cup {[year |-> 2024, month |-> 2, day |-> 28, hour |-> h, minute |-> m, second |-> 0]
        : h \in {0, 9, 23}, m \in {0, 30, 31, 59}}

InitDirect ==
    /\ expr = <<>>
    /\ start_date \in DirectStarts
    /\ fields_parsed = [k \in 1..5 |-> Unset]
    /\ \E mi \in DirectMinutes : \E ho \in DirectHours : \E d \in DirectDates :
           iter = CronScheduleIterator(mi, ho, d.dom, d.month, d.dow, start_date)
    /\ twin = NoIterator("start", "none")
    /\ call = NoCall

NextDirect == NextCall \/ ShiftDateTurn \/ NextReturn

SpecDirect == InitDirect /\ [][NextDirect]_vars

(***************************************************************************)
(* to_next_value(current, candidates, min_, max_) called directly          *)
(***************************************************************************)
InitValue ==
    /\ expr = <<>>
    /\ start_date = S_June
    /\ fields_parsed = [k \in 1..5 |-> Unset]
    /\ iter = NoIterator("start", "none")
    /\ twin = NoIterator("start", "none")
    /\ \E lo \in {0, 1} : \E hi \in lo..(lo + MaxWidth - 1) :
       \E c \in ListsOver(lo..hi) : \E cur \in lo..hi :
           call = [pc |-> "ready", current |-> cur, candidates |-> c,
                   min_ |-> lo, max_ |-> hi, ret |-> [err |-> "none", val |-> 0]]

ToNextValue ==
    /\ call.pc = "ready"
    /\ call' = [call EXCEPT !.pc = "done",
                    !.ret = to_next_value(call.current, call.candidates, call.min_, call.max_)]
    /\ UNCHANGED <<expr, start_date, fields_parsed, iter, twin>>

NextValue == ToNextValue

SpecValue == InitValue /\ [][NextValue]_vars

(***************************************************************************)
(* Properties                                                              *)
(***************************************************************************)
Constructed(p) == p.pc \in {"idle", "shift_date"}

\* a datetime as a count of minutes
Stamp(dt) == ToOrdinal(dt) * 1440 + dt.hour * 60 + dt.minute

\* the weekday of a date with Sunday as 0 and Saturday as 6
CronWeekday(dt) == ToOrdinal(dt) % 7

At(y, mo, d, h, mi) == [year |-> y, month |-> mo, day |-> d, hour |-> h, minute |-> mi]

\* C1: every timestamp returned by next() has its minute in the parsed minute
\* set and its hour in the parsed hour set, also when the date advancer moved
\* to a later day.
C1_TimeOfDayInParsedSets ==
    \A i \in 1..Len(iter.results) :
        /\ iter.results[i].minute \in Range(iter.minute)
        /\ iter.results[i].hour \in Range(iter.hour)

\* C2: every timestamp returned by next() falls on a weekday that, with
\* 0 = Sunday .. 6 = Saturday, is in the parsed day-of-week set.
C2_WeekdayInParsedSet ==
    \A i \in 1..Len(iter.results) :
        CronWeekday(iter.results[i]) \in Range(iter.dow)

\* C3: every list parse_field returns is non-empty, strictly ascending and
\* within the bounds of its field.
C3_ParsedFieldNonEmptyAscending ==
    \A k \in 1..5 :
        fields_parsed[k].err = "ok" =>
            LET v == fields_parsed[k].vals
            IN  /\ Len(v) > 0
                /\ \A i \in 1..(Len(v) - 1) : v[i] < v[i + 1]
                /\ \A i \in 1..Len(v) : Domains[k].min_ <= v[i] /\ v[i] <= Domains[k].max_

\* C4: a call of next() that returns leaves the cursor strictly later than it
\* was, and returns a timestamp strictly later than the one returned before.
C4_StrictlyIncreasing ==
    [][Len(iter'.results) > Len(iter.results) =>
          /\ Stamp(iter'.current) > Stamp(iter.current)
          /\ Len(iter.results) > 0 =>
                Stamp(iter'.results[Len(iter'.results)])
                    > Stamp(iter.results[Len(iter.results)])]_vars

C4_TwoReturned ==
    /\ Len(iter.results) >= 2
    /\ Stamp(iter.results[2]) > Stamp(iter.results[1])

\* C5: a call of next() on a constructed iterator ends by returning a
\* timestamp or by StopIteration, never by another exception.
C5_NextNeverFails ==
    Constructed(iter) => iter.last \in {"none", "returned", "StopIteration"}

\* the base of an atom (the atom without its /step) is a number outside
\* [lo, hi], a range out of order or with an endpoint outside [lo, hi], or
\* none of *, N and N-M
BadBase(base, lo, hi) ==
    \/ IsDigits(base) /\ (StrToInt(base) < lo \/ StrToInt(base) > hi)
    \/ \E i \in 1..Len(base) :
           /\ base[i] = "-"
           /\ IsDigits(SubSeq(base, 1, i - 1))
           /\ IsDigits(SubSeq(base, i + 1, Len(base)))
           /\ \/ StrToInt(SubSeq(base, 1, i - 1)) > StrToInt(SubSeq(base, i + 1, Len(base)))
              \/ StrToInt(SubSeq(base, 1, i - 1)) < lo
              \/ StrToInt(SubSeq(base, i + 1, Len(base))) > hi
    \/ /\ base # <<"*">>
       /\ ~IsDigits(base)
       /\ ~\E i \in 1..Len(base) :
              /\ base[i] = "-"
              /\ IsDigits(SubSeq(base, 1, i - 1))
              /\ IsDigits(SubSeq(base, i + 1, Len(base)))

\* the step of an atom is no positive integer
BadStep(step) == ~(IsDigits(step) /\ StrToInt(step) > 0)

\* the atom a, as parse_field receives it, is one the field [lo, hi] rejects
BadAtom(a, lo, hi) ==
    IF "/" \in Range(a)
    THEN \E i \in 1..Len(a) :
             /\ a[i] = "/"
             /\ \A j \in 1..(i - 1) : a[j] # "/"
             /\ BadBase(SubSeq(a, 1, i - 1), lo, hi) \/ BadStep(SubSeq(a, i + 1, Len(a)))
    ELSE BadBase(a, lo, hi)

Malformed(e) ==
    LET fields == SplitWhitespace(e)
    IN  \/ Len(fields) # 5
        \/ \E k \in 1..5 :
               \E a \in Range(Split(FieldText(fields, k), ",")) :
                   BadAtom(a, Domains[k].min_, Domains[k].max_)

\* C6: parse_cron_expression raises and constructs no iterator when the
\* expression has not exactly five fields or some atom of some field is
\* rejected, in whichever field the atom stands.
C6_MalformedIsRejected ==
    (iter.pc # "start" /\ Malformed(expr)) =>
        iter.pc = "none" /\ iter.last = "ValueError"

\* "* * * * 7-1": the error is in the last field
C6_LaterFieldRejected ==
    /\ expr = InField(5, <<"7", "-", "1">>)
    /\ Malformed(expr)
    /\ fields_parsed[4].err = "ok"
    /\ iter.pc = "none"

\* C7: "*/15 * * * *" started at 2023-01-01 00:05 returns 00:15, 00:30, 00:45
\* and 01:00 of that day from its first four calls.
C7_Expected ==
    <<At(2023, 1, 1, 0, 15), At(2023, 1, 1, 0, 30), At(2023, 1, 1, 0, 45),
      At(2023, 1, 1, 1, 0)>>

C7_QuarterHours ==
    (expr = E_Quarter /\ start_date = S_NewYearsDay) =>
        /\ \A i \in 1..Len(iter.results) : i <= 4 => iter.results[i] = C7_Expected[i]
        /\ iter.pc = "idle" => Len(iter.results) = iter.calls

C7_FourReturned ==
    /\ expr = E_Quarter
    /\ start_date = S_NewYearsDay
    /\ Len(iter.results) >= 4
    /\ iter.results[4] = At(2023, 1, 1, 1, 0)

\* C8: the cursor starts one minute after the start truncated to the minute,
\* and the first timestamp returned is strictly later than the truncated start.
C8_FirstAfterStart ==
    Constructed(iter) =>
        /\ iter.calls = 0 =>
              Stamp(iter.current) = Stamp(TruncateToMinute(start_date)) + 1
        /\ Len(iter.results) > 0 =>
              Stamp(iter.results[1]) > Stamp(TruncateToMinute(start_date))

\* "* * * * *" matches its start 2023-12-31 23:59:30; 2024-01-01 00:00 is
\* returned first
C8_MatchingStartSkipped ==
    /\ expr = E_EveryMinute
    /\ start_date = S_YearEnd
    /\ Len(iter.results) > 0
    /\ iter.results[1] = At(2024, 1, 1, 0, 0)

\* C9 as stated: an expression and the same expression with 0 written for
\* every 7 of its day-of-week field return the same timestamps call for call,
\* and the iterator's day-of-week list holds only 0..6.
C9_SevenAndZeroAgree ==
    (Constructed(iter) /\ Constructed(twin)) =>
        /\ iter.results = twin.results
        /\ Range(iter.dow) \subseteq 0..6

\* every 7 of the day-of-week field is an atom of its own
SevenIsAnAtom(e) ==
    LET fields == SplitWhitespace(e)
    IN  /\ Len(fields) = 5
        /\ \A a \in Range(Split(fields[5], ",")) : "7" \in Range(a) => a = <<"7">>

\* C9 amended: when every 7 of the day-of-week field is an atom of its own
\* (no range endpoint, no step), the expression and the one written with 0
\* return the same timestamps call for call, and the iterator's day-of-week
\* list holds only 0..6.
C9_SevenAtomAndZeroAgree ==
    (Constructed(iter) /\ Constructed(twin) /\ SevenIsAnAtom(expr)) =>
        /\ iter.results = twin.results
        /\ Range(iter.dow) \subseteq 0..6

C9_SundayWrittenSeven ==
    /\ expr = E_MonSun
    /\ SevenAsZero(expr) # expr
    /\ Len(iter.results) >= 2
    /\ iter.results = twin.results
    /\ Range(iter.dow) = {0, 1}

\* C10: "0 0 1 1 *" started at 2023-06-15 10:00 returns 2024-01-01 00:00 from
\* its first call.
C10_NextNewYear ==
    (expr = E_NewYear /\ start_date = S_June) =>
        /\ Len(iter.results) > 0 => iter.results[1] = At(2024, 1, 1, 0, 0)
        /\ (iter.pc = "idle" /\ iter.calls > 0) => Len(iter.results) > 0

C10_FirstReturned ==
    /\ expr = E_NewYear
    /\ start_date = S_June
    /\ iter.calls = 1
    /\ iter.results = <<At(2024, 1, 1, 0, 0)>>

\* the names and the number of the first name for field k
NamesOf(k) == IF k = 4 THEN MonthNames ELSE DayNames

FirstOf(k) == IF k = 4 THEN 1 ELSE 0

\* C11: a month or day-of-week field written with three-letter names parses
\* to the same result as the field written with the numbers of the names
\* (JAN..DEC are 1..12, SUN..SAT are 0..6).
C11_NamesParseAsNumbers ==
    (iter.pc # "start" /\ \E i \in 1..Len(expr) : expr[i] \notin Alphabet \cup Digits) =>
        \A k \in {4, 5} :
            \A f \in NameFields(NamesOf(k)) :
                expr = InField(k, Concat(f)) =>
                    fields_parsed[k] =
                        parse_field(WithNumbers(f, NamesOf(k), FirstOf(k)),
                                    Domains[k].min_, Domains[k].max_)

\* "* * * JAN,MAR *" parses its month field to [1, 3], as "1,3" does
C11_JanMar ==
    /\ expr = InField(4, <<"J", "A", "N", ",", "M", "A", "R">>)
    /\ fields_parsed[4] = Ok(<<1, 3>>)
    /\ fields_parsed[4] = parse_field(<<"1", ",", "3">>, 1, 12)

\* the minutes from 00:00 of the day of t to the first time of day at or
\* after t with its hour in ho and its minute in mi: on the day of t when
\* there is one, and otherwise on the day after
EarliestFromMidnight(t, mi, ho) ==
    LET today == {h * 60 + m : h \in Range(ho), m \in Range(mi)}
                     \cap (t.hour * 60 + t.minute)..1439
        Least(S) == CHOOSE x \in S : \A y \in S : x <= y
    IN  IF today # {} THEN Least(today)
        ELSE 1440 + Least(Range(ho)) * 60 + Least(Range(mi))

\* C12: shift_time returns the earliest timestamp at or after the cursor with
\* its minute in the minute set and its hour in the hour set: on the same
\* day when there is one, and otherwise on the following day.
C12_EarliestTimeOfDay ==
    [][(iter.pc = "idle" /\ iter'.pc = "shift_date") =>
          /\ iter'.dt.day <= DaysInMonth(iter'.dt.year, iter'.dt.month)
          /\ (ToOrdinal(iter'.dt) - ToOrdinal(iter.current)) * 1440
                 + iter'.dt.hour * 60 + iter'.dt.minute
               = EarliestFromMidnight(iter.current, iter.minute, iter.hour)]_vars

\* the cursor 2023-12-31 23:32 with minutes [0, 30] and hours [9] moves to 2024-01-01 09:00
C12_RolledToNextDay ==
    /\ iter.pc = "shift_date"
    /\ iter.calls = 1
    /\ iter.current = At(2023, 12, 31, 23, 32)
    /\ iter.minute = <<0, 30>>
    /\ iter.hour = <<9>>
    /\ iter.dt = At(2024, 1, 1, 9, 0)

\* C13: to_next_value returns a non-negative delta that is right on the ring
\* of width max - min + 1: the least candidate at or after current minus
\* current, and when there is none candidates[0] + (max - min + 1) - current.
C13_RingDelta ==
    call.pc = "done" =>
        LET later == {c \in Range(call.candidates) : c >= call.current}
            width == call.max_ - call.min_ + 1
        IN  /\ call.ret.err = "ok"
            /\ call.ret.val >= 0
            /\ later # {} =>
                 \E c \in later : /\ \A d \in later : c <= d
                                  /\ call.ret.val = c - call.current
            /\ later = {} =>
                 /\ call.ret.val = call.candidates[1] + width - call.current
                 /\ call.min_ + ((call.current - call.min_ + call.ret.val) % width)
                      = call.candidates[1]

\* the values of the base of an atom: *, N or N-M
BaseSet(base, lo, hi) ==
    IF base = <<"*">> THEN lo..hi
    ELSE IF IsDigits(base) THEN {StrToInt(base)}
    ELSE UNION {StrToInt(SubSeq(base, 1, i - 1))..StrToInt(SubSeq(base, i + 1, Len(base))) :
                   i \in {j \in 1..Len(base) :
                             /\ base[j] = "-"
                             /\ IsDigits(SubSeq(base, 1, j - 1))
                             /\ IsDigits(SubSeq(base, j + 1, Len(base)))}}

\* the values v of S with v - lo a multiple of step
EveryStep(S, lo, step) == {v \in S : (v - lo) % step = 0}

\* the values of the atom a in a field of domain [lo, hi]: those of its
\* base and, under a /S, those with (v - lo) a multiple of S
AtomSet(a, lo, hi) ==
    IF "/" \in Range(a)
    THEN LET i == CHOOSE j \in 1..Len(a) : a[j] = "/" /\ \A m \in 1..(j - 1) : a[m] # "/"
         IN  EveryStep(BaseSet(SubSeq(a, 1, i - 1), lo, hi), lo,
                       StrToInt(SubSeq(a, i + 1, Len(a))))
    ELSE BaseSet(a, lo, hi)

\* C14: an accepted field parses to the ascending list, without duplicates,
\* of the values of [min, max] covered by one of its comma-separated atoms,
\* the step of an atom counted from min: minutes */15 are [0, 15, 30, 45],
\* hours */15 are [0, 15], hours 10-12,5 are [5, 10, 11, 12].
C14_FieldIsUnionOfAtoms ==
    iter.pc # "start" =>
        /\ \A k \in 1..5 :
               fields_parsed[k].err = "ok" =>
                   LET vals == fields_parsed[k].vals
                       atoms == Split(FieldText(SplitWhitespace(expr), k), ",")
                   IN  /\ \A i \in 1..(Len(vals) - 1) : vals[i] < vals[i + 1]
                       /\ Range(vals) =
                            UNION {AtomSet(atoms[j], Domains[k].min_, Domains[k].max_) :
                                      j \in 1..Len(atoms)}
        /\ expr = InField(1, <<"*", "/", "1", "5">>) =>
               fields_parsed[1] = Ok(<<0, 15, 30, 45>>)
        /\ expr = InField(2, <<"*", "/", "1", "5">>) =>
               fields_parsed[2] = Ok(<<0, 15>>)
        /\ expr = InField(2, <<"1", "0", "-", "1", "2", ",", "5">>) =>
               fields_parsed[2] = Ok(<<5, 10, 11, 12>>)

\* "* 10-12,5 * * *" is parsed
C14_ListAfterRange ==
    /\ expr = InField(2, <<"1", "0", "-", "1", "2", ",", "5">>)
    /\ iter.pc = "idle"
    /\ fields_parsed[2].vals = <<5, 10, 11, 12>>

\* the most days month m has in any year
LongestMonth(m) == IF m = 2 THEN 29 ELSE IF m \in {4, 6, 9, 11} THEN 30 ELSE 31

\* no day of the day-of-month list exists in any month of the month list
NeverCoOccur(p) ==
    /\ p.pc \in {"idle", "shift_date"}
    /\ p.minute # <<>> /\ p.hour # <<>>
    /\ \A d \in Range(p.dom) : \A m \in Range(p.month) : d > LongestMonth(m)

\* C15: for a schedule whose day-of-month and month lists never co-occur,
\* next() never returns, and neither an error nor the end of the sequence
\* is reported.
C15_NeverReturnsNorFails ==
    NeverCoOccur(iter) => iter.results = <<>> /\ iter.last = "none"

\* dt is on 9999-12-31
LastDay(dt) == dt.year = MAXYEAR /\ dt.month = 12 /\ dt.day = 31

\* C15 as the code has it: next() never returns a timestamp and never
\* reports the end of the sequence; what it can report is the OverflowError
\* of an addition that leaves datetime's range: the step of shift_date from
\* 9999-12-31, or that of shift_time when the cursor is on that day.
C15_NeverReturnsUntilRangeEnd ==
    NeverCoOccur(iter) =>
        /\ iter.results = <<>>
        /\ iter.last \in {"none", "OverflowError"}
        /\ iter.last = "OverflowError" => LastDay(iter.dt) \/ LastDay(iter.current)

\* "0 0 31 2 *" from 9999-12-30: the step from 9999-12-31 has failed
C15_RangeEndReached ==
    /\ expr = E_Feb31
    /\ start_date = S_LastDays
    /\ iter.calls = 1
    /\ iter.pc = "idle"
    /\ iter.last = "OverflowError"
    /\ iter.results = <<>>

\* C16: shift_date returns its input unchanged when the input's date passes
\* the test of day of month, month and day of week; otherwise it returns
\* 00:00 of a strictly later date that passes, no date in between passing.
\* Stated where __next__ returns: the input is shift_time of the cursor.
C16_FirstPassingDate ==
    [][(InLoop(iter) /\ iter'.pc = "idle" /\ iter'.last = "returned") =>
          LET in  == shift_time(iter.current, iter.minute, iter.hour).dt
              out == iter'.results[Len(iter'.results)]
              Passes(d) == DateMatches(d, iter.dom, iter.month, iter.dow)
          IN  IF Passes(in) THEN out = in
              ELSE /\ out.hour = 0 /\ out.minute = 0
                   /\ out.day <= DaysInMonth(out.year, out.month)
                   /\ Passes(out)
                   /\ ToOrdinal(out) > ToOrdinal(in)
                   /\ \A n \in 1..(ToOrdinal(out) - ToOrdinal(in) - 1) :
                          ~Passes(AddDays(in, n))]_vars

\* days 1 and 15 at 09:00, from 2024-02-28 09:30: shift_time gives
\* 2024-02-29 09:00, shift_date 2024-03-01 00:00
C16_MovedToFirstOfMarch ==
    /\ start_date = [year |-> 2024, month |-> 2, day |-> 28, hour |-> 9, minute |-> 30, second |-> 0]
    /\ iter.minute = <<0>>
    /\ iter.hour = <<9>>
    /\ iter.dom = <<1, 15>>
    /\ iter.results = <<At(2024, 3, 1, 0, 0)>>

\* C17: with every field list non-empty, shift_time followed by shift_date
\* never yields a timestamp earlier than the cursor, so next() never
\* reports the end of the sequence.
C17_NeverExhausted ==
    (/\ iter.pc \in {"idle", "shift_date"}
     /\ iter.minute # <<>> /\ iter.hour # <<>>
     /\ iter.dom # <<>> /\ iter.month # <<>> /\ iter.dow # <<>>) =>
        /\ iter.last # "StopIteration"
        /\ InLoop(iter) => ~Before(iter.dt, iter.current)

\* two calls of next() on Mondays and Thursdays (weekday() 0 and 3) have
\* returned
C17_TwoCallsReturned ==
    /\ iter.pc = "idle"
    /\ iter.dow = <<0, 3>>
    /\ iter.calls = 2
    /\ iter.last = "returned"
    /\ Len(iter.results) = 2

\* year, month and day as one number, ordered as the dates are
DateKey(y, m, d) == y * 10000 + m * 100 + d

\* a timestamp strictly between a and b has its minute, hour, day of month
\* and month in the lists of the iterator p
OccurrenceBetween(p, a, b) ==
    \E y \in a.year..b.year : \E mo \in Range(p.month) : \E d \in Range(p.dom) :
        /\ d <= DaysInMonth(y, mo)
        /\ DateKey(y, mo, d) \in DateKey(a.year, a.month, a.day)..DateKey(b.year, b.month, b.day)
        /\ \E h \in Range(p.hour) : \E mi \in Range(p.minute) :
               /\ Before(a, At(y, mo, d, h, mi))
               /\ Before(At(y, mo, d, h, mi), b)

\* C18: with * as the day-of-week field no occurrence is skipped: no
\* timestamp with its minute, hour, day of month and month in the parsed
\* sets lies strictly between the truncated start and the first result, or
\* strictly between two consecutive results.
C18_NoOccurrenceSkipped ==
    [][(/\ InLoop(iter) /\ iter'.pc = "idle" /\ iter'.last = "returned"
        /\ Len(SplitWhitespace(expr)) = 5
        /\ SplitWhitespace(expr)[5] = <<"*">>) =>
          ~OccurrenceBetween(iter,
                             IF iter.results = <<>> THEN TruncateToMinute(start_date)
                             ELSE iter.results[Len(iter.results)],
                             iter'.results[Len(iter'.results)])]_vars

\* "30 9 15 * *" from 2023-06-15 10:00:00: 00:00 and 09:30 of the 15th of July
C18_MidMonthTwice ==
    /\ expr = E_MidMonth
    /\ start_date = S_June
    /\ Len(iter.results) >= 2
    /\ iter.results[2] = At(2023, 7, 15, 9, 30)

NonEmptyLists(p) ==
    /\ p.minute # <<>> /\ p.hour # <<>>
    /\ p.dom # <<>> /\ p.month # <<>> /\ p.dow # <<>>

\* C19: with non-empty field lists and a date at or after the cursor that
\* passes the date test, every call of next() terminates and returns a
\* timestamp, for every later call as well (the sequence is infinite).
\* In the form a finite run refutes: a call made with the cursor on a date
\* that passes has not ended in an error.
C19_EveryCallReturns ==
    (/\ iter.pc = "idle" /\ iter.calls > 0
     /\ NonEmptyLists(iter)
     /\ DateMatches(iter.current, iter.dom, iter.month, iter.dow)) =>
        iter.last = "returned"

\* the date of p.dt, or a later date of the years the loop is followed
\* through, passes the date test of p
DateAhead(p) ==
    \/ Matches(p)
    \/ \E y \in {p.dt.year} \cup p.dt.year..MaxYear :
           /\ Followed([year |-> y])
           /\ \E mo \in Range(p.month) : \E d \in Range(p.dom) :
                  /\ d <= DaysInMonth(y, mo)
                  /\ DateKey(y, mo, d) >= DateKey(p.dt.year, p.dt.month, p.dt.day)
                  /\ DateMatches(At(y, mo, d, 0, 0), p.dom, p.month, p.dow)

\* C19 as the code has it: a call of next() that has reached shift_date
\* with a date ahead that passes the test terminates and returns a
\* timestamp, provided the minute after that timestamp is still in
\* datetime's range; at 9999-12-31 23:59 the sequence ends with
\* OverflowError.
C19_CallReturnsWithinRange ==
    (/\ InLoop(iter) /\ DateAhead(iter)
     /\ ~OutOfRange(AddMinutes(iter.dt, 1)))
        ~> (iter.pc = "idle" /\ iter.last = "returned")

\* "0 0 1 1 *" from 2023-01-01 00:05:00: two calls, each after a year of
\* one-day steps
C19_TwoNewYears ==
    /\ expr = E_NewYear
    /\ start_date = S_NewYearsDay
    /\ iter.pc = "idle"
    /\ iter.results = <<At(2024, 1, 1, 0, 0), At(2025, 1, 1, 0, 0)>>

====
